---------------------------- MODULE Spec2Model ----------------------------
(***************************************************************************)
(* Model of scripts/deploy_to_databricks.py: the module-level credential   *)
(* check, deploy_dashboards, deploy_jobs and the __main__ block, together  *)
(* with the remote workspace the requests are sent to; and of            *)
(* etl_pipeline.py: the four functions over a DataFrame (EtlSpec).         *)
(*                                                                         *)
(* A string of the program is a TLA+ string; a file name is the sequence   *)
(* of its parts (stem, suffixes), so that str.replace is computed and not  *)
(* assumed.  A missing dictionary key or unset environment variable is    *)
(* the value None.                                                         *)
(***************************************************************************)
EXTENDS Integers, Sequences, FiniteSets, TLC

(* ---------------------------- bounds ---------------------------------- *)
MaxLocal == 2       \* most definition files in a local directory
MaxRemote == 2      \* most artifacts in the workspace before the first run
MaxRows == 3        \* most rows of a DataFrame handed to etl_pipeline

(* The script is run, and then run once more over the same files. *)
Runs == {1, 2}

(* ---------------------------- values ---------------------------------- *)
None == "<None>"
SUFFIX == ".lvdash.json"
Names == {"A", "B"}

(* The dashboard definition files a directory may hold: the file name in  *)
(* parts, and the parsed JSON content.  The third file is matched by the   *)
(* glob *.lvdash.json as well and carries the suffix twice.                *)
DashboardFiles ==
    { [file |-> <<"A", SUFFIX>>,
       data |-> [display_name |-> None, parent_path |-> None, pages |-> "pA"]],
      [file |-> <<"B", SUFFIX>>,
       data |-> [display_name |-> "Old", parent_path |-> "/Users/me", pages |-> "pB"]],
      [file |-> <<"A", SUFFIX, SUFFIX>>,
       data |-> [display_name |-> "A", parent_path |-> "/Shared", pages |-> "pA2"]] }

(* Job definitions: the name key may be missing or empty. *)
JobDefs == { [name |-> n, tasks |-> "t"] : n \in Names \cup {None, ""} }

(* What ./jobs holds when the script itself is executed: one definition   *)
(* with a name.                                                            *)
MainJobFiles == { <<[name |-> "A", tasks |-> "t"]>> }

EnvValues == {None, "", "set"}

(* Sequences over S of length at most n, and those without repetition. *)
SeqsUpTo(S, n) == UNION { [1..k -> S] : k \in 0..n }
DistinctSeqsUpTo(S, n) ==
    { s \in SeqsUpTo(S, n) : \A a, b \in 1..Len(s) : a # b => s[a] # s[b] }

VARIABLES
    HOST, TOKEN,          \* os.environ.get(...) at import
    entry,                \* "__main__": the script is executed;
                          \* "deploy_jobs": the module is imported and deploy_jobs() called
    pc,                   \* position in the program
    run,                  \* which execution of the script this is
    dashboard_files,      \* glob("dashboards/*.lvdash.json"), in glob order
    dashboards,           \* the snapshot held by deploy_dashboards
    jobs_dir_exists,      \* Path("./jobs").exists()
    job_files,            \* the parsed ./jobs/*.json, in glob order
    jobs_list,            \* the list held by deploy_jobs for the current file
    i,                    \* index of the file the loop is at
    remote_dashboards,    \* the workspace's dashboards, in list order
    remote_jobs,          \* the workspace's jobs, in list order
    reqs,                 \* every HTTP request sent, in order
    printed,              \* every status line printed, in order
    exit_status,          \* None while running; "0" or "1" once the process ended
    df,                   \* the DataFrame the ETL functions are applied to
    calls                 \* the calls of etl_pipeline functions made, in order

deploy_vars == <<HOST, TOKEN, entry, pc, run, dashboard_files, dashboards,
                 jobs_dir_exists, job_files, jobs_list, i, remote_dashboards,
                 remote_jobs, reqs, printed, exit_status>>

vars == <<deploy_vars, df, calls>>

(* ------------------------- pure helpers ------------------------------- *)

(* Python truthiness of an optional string (None and "" are falsy). *)
Truthy(v) == v # None /\ v # ""

(* An identifier of the workspace is a positive number; 0 stands for a    *)
(* missing, null or empty one.                                             *)
HasId(id) == id # 0

RECURSIVE Join(_)
Join(parts) == IF parts = <<>> THEN "" ELSE Head(parts) \o Join(Tail(parts))

(* os.path.basename(f).replace(".lvdash.json", ""): every occurrence goes. *)
CleanName(file) == Join(SelectSeq(file, LAMBDA p : p # SUFFIX))

(* Variant: keys the file already has are kept (setdefault, not update). *)
DataSetDefault(data, clean_name) ==
    [data EXCEPT
        !.display_name = IF data.display_name = None THEN clean_name
                         ELSE data.display_name,
        !.parent_path = IF data.parent_path = None THEN "/Shared"
                        ELSE data.parent_path]

(* data.update({"display_name": clean_name, "parent_path": "/Shared"}) *)
DataUpdate(data, clean_name) ==
    [data EXCEPT !.display_name = clean_name, !.parent_path = "/Shared"]

(* next((x for x in xs if name_of(x) == name), None), over the names of   *)
(* the entries: the generator is consumed from position k up to the first *)
(* hit.                                                                    *)
RECURSIVE NextNamed(_, _, _)
NextNamed(names, name, k) ==
    IF k > Len(names) THEN 0
    ELSE IF names[k] = name THEN k
    ELSE NextNamed(names, name, k + 1)

(* Variant: the last entry of that name is taken, not the first. *)
ExistingLast(snapshot, clean_name) ==
    LET hits == { k \in 1..Len(snapshot) : snapshot[k].display_name = clean_name }
    IN  IF hits = {} THEN 0 ELSE CHOOSE k \in hits : \A j \in hits : j <= k

(* next((d for d in dashboards if d.get("display_name") == clean_name), None) *)
(* The result is the position of the entry in the snapshot; 0 is None.     *)
Existing(snapshot, clean_name) ==
    NextNamed([k \in 1..Len(snapshot) |-> snapshot[k].display_name],
              clean_name, 1)

(* Variant: the name filter is lost and the first listed job is taken. *)
ExistingJobUnfiltered(list, job_name) ==
    IF list = <<>> THEN 0 ELSE 1

(* next((j for j in jobs_list if j["settings"]["name"] == job_name), None) *)
ExistingJob(list, job_name) ==
    NextNamed([k \in 1..Len(list) |-> list[k].settings.name], job_name, 1)

(* if existing and existing.get("dashboard_id") *)
TakesUpdate(snapshot, existing) ==
    existing # 0 /\ HasId(snapshot[existing].dashboard_id)

(* ------------------------ the remote workspace ------------------------ *)

MaxOf(S) == IF S = {} THEN 0 ELSE CHOOSE m \in S : \A x \in S : x <= m

FreshDashboardId ==
    1 + MaxOf({ remote_dashboards[k].dashboard_id : k \in 1..Len(remote_dashboards) })

FreshJobId ==
    1 + MaxOf({ remote_jobs[k].job_id : k \in 1..Len(remote_jobs) })

(* POST /api/2.0/lakeview/dashboards *)
RemoteCreateDashboard(remote, body, id) ==
    Append(remote, [display_name |-> body.display_name, dashboard_id |-> id,
                    body |-> body])

(* PATCH /api/2.0/lakeview/dashboards/{id} *)
RemoteUpdateDashboard(remote, id, body) ==
    [k \in 1..Len(remote) |->
        IF remote[k].dashboard_id = id
        THEN [remote[k] EXCEPT !.display_name = body.display_name, !.body = body]
        ELSE remote[k]]

(* POST /api/2.1/jobs/create *)
RemoteCreateJob(remote, job_def, id) ==
    Append(remote, [job_id |-> id, settings |-> job_def])

(* POST /api/2.1/jobs/update with {"job_id": id, "new_settings": job_def} *)
RemoteUpdateJob(remote, id, job_def) ==
    [k \in 1..Len(remote) |->
        IF remote[k].job_id = id
        THEN [remote[k] EXCEPT !.settings = job_def]
        ELSE remote[k]]

(* The workspace before the first run.  A dashboard entry of the list      *)
(* response may come without a dashboard_id (0); a job always has a job_id *)
(* and settings.name.                                                      *)
InitialRemoteDashboards ==
    { [k \in 1..Len(s) |->
          [display_name |-> s[k].name,
           dashboard_id |-> IF s[k].has_id THEN k ELSE 0,
           body |-> [display_name |-> s[k].name, parent_path |-> "/Shared",
                     pages |-> "p0"]]] :
      s \in SeqsUpTo([name : Names, has_id : BOOLEAN], MaxRemote) }

InitialRemoteJobs ==
    { [k \in 1..Len(s) |->
          [job_id |-> k, settings |-> [name |-> s[k], tasks |-> "t0"]]] :
      s \in SeqsUpTo(Names, MaxRemote) }

(* One sent request.  file is the index of the local definition it is sent *)
(* for (0: for none in particular); id the identifier it addresses; ok     *)
(* whether it came back 2xx (otherwise: a requests.RequestException); resp *)
(* the artifacts a list request returned.                                  *)
Request(api, op, file, id, body, ok, resp) ==
    [run |-> run, api |-> api, op |-> op, file |-> file, id |-> id,
     body |-> body, ok |-> ok, resp |-> resp]

Line(msg, file) == [run |-> run, msg |-> msg, file |-> file]

(* ------------------------------ Init ---------------------------------- *)
Init ==
    /\ HOST \in EnvValues
    /\ TOKEN \in EnvValues
    /\ entry \in {"__main__", "deploy_jobs"}
    /\ pc = "import"
    /\ run = 1
    /\ dashboards = <<>>
    /\ jobs_list = <<>>
    /\ i = 0
    /\ reqs = <<>>
    /\ printed = <<>>
    /\ exit_status = None
    /\ df = <<>>
    /\ calls = <<>>
    /\ IF entry = "__main__"
       THEN /\ dashboard_files \in DistinctSeqsUpTo(DashboardFiles, MaxLocal)
            /\ remote_dashboards \in InitialRemoteDashboards
            /\ jobs_dir_exists \in BOOLEAN
            /\ job_files \in (IF jobs_dir_exists THEN MainJobFiles ELSE {<<>>})
            /\ remote_jobs = <<>>
       ELSE /\ dashboard_files = <<>>
            /\ remote_dashboards = <<>>
            /\ jobs_dir_exists \in BOOLEAN
            /\ job_files \in (IF jobs_dir_exists THEN SeqsUpTo(JobDefs, MaxLocal)
                              ELSE {<<>>})
            /\ remote_jobs \in InitialRemoteJobs

(* --------------------- module level, lines 34-41 ---------------------- *)

(* Variant: only an unset variable counts, an empty one passes. *)
CredentialsUnset == HOST = None \/ TOKEN = None

(* if not HOST or not TOKEN: print(...); sys.exit(1) *)
CredentialsMissing == ~Truthy(HOST) \/ ~Truthy(TOKEN)

ImportExit ==
    /\ pc = "import"
    /\ CredentialsMissing
    /\ pc' = "exited"
    /\ exit_status' = "1"
    /\ printed' = Append(printed, Line("credentials not set", 0))
    /\ UNCHANGED <<df, calls, HOST, TOKEN, entry, run, dashboard_files, dashboards,
                   jobs_dir_exists, job_files, jobs_list, i, remote_dashboards,
                   remote_jobs, reqs>>

(* The import completes; __main__ calls deploy_dashboards() and nothing   *)
(* else (lines 274-278); a caller of deploy_jobs() enters it.              *)
ImportOk ==
    /\ pc = "import"
    /\ ~CredentialsMissing
    /\ pc' = IF entry = "__main__" THEN "deploy_dashboards" ELSE "deploy_jobs"
    /\ UNCHANGED <<df, calls, HOST, TOKEN, entry, run, dashboard_files, dashboards,
                   jobs_dir_exists, job_files, jobs_list, i, remote_dashboards,
                   remote_jobs, reqs, printed, exit_status>>

(* --------------------- deploy_dashboards, 96-173 ---------------------- *)

(* if not dashboard_files: print(...); return *)
DashboardsNone ==
    /\ pc = "deploy_dashboards"
    /\ dashboard_files = <<>>
    /\ pc' = "returned"
    /\ printed' = Append(printed, Line("No dashboards found", 0))
    /\ UNCHANGED <<df, calls, HOST, TOKEN, entry, run, dashboard_files, dashboards,
                   jobs_dir_exists, job_files, jobs_list, i, remote_dashboards,
                   remote_jobs, reqs, exit_status>>

(* Variant: a failed list request ends the function. *)
DashboardsListStepAborting(ok) ==
    /\ pc = "deploy_dashboards"
    /\ dashboard_files # <<>>
    /\ reqs' = Append(reqs, Request("lakeview", "list", 0, 0, None, ok,
                                    IF ok THEN remote_dashboards ELSE <<>>))
    /\ dashboards' = IF ok THEN remote_dashboards ELSE <<>>
    /\ printed' = IF ok THEN printed ELSE Append(printed, Line("GET failed", 0))
    /\ i' = 1
    /\ pc' = IF ok THEN "dashboards_loop" ELSE "returned"
    /\ UNCHANGED <<df, calls, HOST, TOKEN, entry, run, dashboard_files, jobs_dir_exists,
                   job_files, jobs_list, remote_dashboards, remote_jobs,
                   exit_status>>

(* resp = safe_request("get", .../dashboards)                              *)
(* dashboards = resp.json().get("dashboards", []) if resp else []          *)
DashboardsListStep(ok) ==
    /\ pc = "deploy_dashboards"
    /\ dashboard_files # <<>>
    /\ reqs' = Append(reqs, Request("lakeview", "list", 0, 0, None, ok,
                                    IF ok THEN remote_dashboards ELSE <<>>))
    /\ dashboards' = IF ok THEN remote_dashboards ELSE <<>>
    /\ printed' = IF ok THEN printed ELSE Append(printed, Line("GET failed", 0))
    /\ i' = 1
    /\ pc' = "dashboards_loop"
    /\ UNCHANGED <<df, calls, HOST, TOKEN, entry, run, dashboard_files, jobs_dir_exists,
                   job_files, jobs_list, remote_dashboards, remote_jobs,
                   exit_status>>

DashboardsList == \E ok \in BOOLEAN : DashboardsListStep(ok)

(* One iteration of the loop that takes the update branch, 143-166. *)
DashboardUpdateStep(ok) ==
    /\ pc = "dashboards_loop"
    /\ i <= Len(dashboard_files)
    /\ LET clean_name == CleanName(dashboard_files[i].file)
           data == DataUpdate(dashboard_files[i].data, clean_name)
           existing == Existing(dashboards, clean_name)
       IN  /\ TakesUpdate(dashboards, existing)
           /\ reqs' = Append(reqs, Request("lakeview", "update", i,
                                           dashboards[existing].dashboard_id,
                                           data, ok, <<>>))
           /\ remote_dashboards' =
                 IF ok THEN RemoteUpdateDashboard(remote_dashboards,
                                                  dashboards[existing].dashboard_id,
                                                  data)
                 ELSE remote_dashboards
           /\ printed' = IF ok THEN Append(printed, Line("Updated", i))
                         ELSE Append(Append(printed, Line("PATCH failed", i)),
                                     Line("Failed to update", i))
    /\ i' = i + 1
    /\ UNCHANGED <<df, calls, HOST, TOKEN, entry, pc, run, dashboard_files, dashboards,
                   jobs_dir_exists, job_files, jobs_list, remote_jobs,
                   exit_status>>

DashboardUpdate == \E ok \in BOOLEAN : DashboardUpdateStep(ok)

(* Variant: the else branch fetches the list again before it creates. *)
DashboardCreateStepRelisting(ok) ==
    /\ pc = "dashboards_loop"
    /\ i <= Len(dashboard_files)
    /\ LET clean_name == CleanName(dashboard_files[i].file)
           data == DataUpdate(dashboard_files[i].data, clean_name)
           existing == Existing(dashboards, clean_name)
       IN  /\ ~TakesUpdate(dashboards, existing)
           /\ reqs' = Append(Append(reqs,
                                    Request("lakeview", "list", 0, 0, None, TRUE,
                                            remote_dashboards)),
                             Request("lakeview", "create", i, 0, data, ok, <<>>))
           /\ remote_dashboards' =
                 IF ok THEN RemoteCreateDashboard(remote_dashboards, data,
                                                  FreshDashboardId)
                 ELSE remote_dashboards
           /\ printed' = IF ok THEN Append(printed, Line("Created", i))
                         ELSE Append(Append(printed, Line("POST failed", i)),
                                     Line("Failed to create", i))
    /\ dashboards' = remote_dashboards
    /\ i' = i + 1
    /\ UNCHANGED <<df, calls, HOST, TOKEN, entry, pc, run, dashboard_files,
                   jobs_dir_exists, job_files, jobs_list, remote_jobs,
                   exit_status>>

(* One iteration of the loop that takes the else branch, 143-157, 167-173. *)
DashboardCreateStep(ok) ==
    /\ pc = "dashboards_loop"
    /\ i <= Len(dashboard_files)
    /\ LET clean_name == CleanName(dashboard_files[i].file)
           data == DataUpdate(dashboard_files[i].data, clean_name)
           existing == Existing(dashboards, clean_name)
       IN  /\ ~TakesUpdate(dashboards, existing)
           /\ reqs' = Append(reqs, Request("lakeview", "create", i, 0, data, ok, <<>>))
           /\ remote_dashboards' =
                 IF ok THEN RemoteCreateDashboard(remote_dashboards, data,
                                                  FreshDashboardId)
                 ELSE remote_dashboards
           /\ printed' = IF ok THEN Append(printed, Line("Created", i))
                         ELSE Append(Append(printed, Line("POST failed", i)),
                                     Line("Failed to create", i))
    /\ i' = i + 1
    /\ UNCHANGED <<df, calls, HOST, TOKEN, entry, pc, run, dashboard_files, dashboards,
                   jobs_dir_exists, job_files, jobs_list, remote_jobs,
                   exit_status>>

DashboardCreate == \E ok \in BOOLEAN : DashboardCreateStep(ok)

(* Variant: a failed create or update ends the function. *)
DashboardsReturnOnFailure ==
    /\ pc = "dashboards_loop"
    /\ \/ i > Len(dashboard_files)
       \/ /\ reqs # <<>>
          /\ reqs[Len(reqs)].op # "list"
          /\ ~reqs[Len(reqs)].ok
    /\ pc' = "returned"
    /\ UNCHANGED <<df, calls, HOST, TOKEN, entry, run, dashboard_files, dashboards,
                   jobs_dir_exists, job_files, jobs_list, i, remote_dashboards,
                   remote_jobs, reqs, printed, exit_status>>

(* Variant: a full sync, which on return deletes the first dashboard of    *)
(* the snapshot that no local file names.                                  *)
DashboardsReturnPruning ==
    /\ pc = "dashboards_loop"
    /\ i > Len(dashboard_files)
    /\ pc' = "returned"
    /\ LET local == { CleanName(dashboard_files[f].file) :
                          f \in 1..Len(dashboard_files) }
           extra == { j \in 1..Len(dashboards) :
                         /\ dashboards[j].display_name \notin local
                         /\ HasId(dashboards[j].dashboard_id) }
           k == IF extra = {} THEN 0
                ELSE CHOOSE j \in extra : \A m \in extra : j <= m
       IN  IF k = 0
           THEN UNCHANGED <<remote_dashboards, reqs>>
           ELSE /\ reqs' = Append(reqs, Request("lakeview", "delete", 0,
                                                dashboards[k].dashboard_id,
                                                None, TRUE, <<>>))
                /\ remote_dashboards' =
                      SelectSeq(remote_dashboards,
                                LAMBDA d : d.dashboard_id
                                           # dashboards[k].dashboard_id)
    /\ UNCHANGED <<df, calls, HOST, TOKEN, entry, run, dashboard_files, dashboards,
                   jobs_dir_exists, job_files, jobs_list, i, remote_jobs,
                   printed, exit_status>>

(* The for loop is exhausted and deploy_dashboards returns. *)
DashboardsReturn ==
    /\ pc = "dashboards_loop"
    /\ i > Len(dashboard_files)
    /\ pc' = "returned"
    /\ UNCHANGED <<df, calls, HOST, TOKEN, entry, run, dashboard_files, dashboards,
                   jobs_dir_exists, job_files, jobs_list, i, remote_dashboards,
                   remote_jobs, reqs, printed, exit_status>>

(* ------------------------ deploy_jobs, 178-267 ------------------------ *)

(* if not jobs_dir.exists(): print(...); return *)
JobsNoDir ==
    /\ pc = "deploy_jobs"
    /\ ~jobs_dir_exists
    /\ pc' = "returned"
    /\ printed' = Append(printed, Line("No jobs directory found", 0))
    /\ UNCHANGED <<df, calls, HOST, TOKEN, entry, run, dashboard_files, dashboards,
                   jobs_dir_exists, job_files, jobs_list, i, remote_dashboards,
                   remote_jobs, reqs, exit_status>>

(* for job_file in jobs_dir.glob("*.json"): the loop is entered. *)
JobsEnter ==
    /\ pc = "deploy_jobs"
    /\ jobs_dir_exists
    /\ i' = 1
    /\ pc' = "jobs_loop"
    /\ UNCHANGED <<df, calls, HOST, TOKEN, entry, run, dashboard_files, dashboards,
                   jobs_dir_exists, job_files, jobs_list, remote_dashboards,
                   remote_jobs, reqs, printed, exit_status>>

(* Variant: the warning is printed but the continue is lost, and the      *)
(* nameless definition is sent to the create endpoint.                     *)
JobSkipFallingThrough ==
    /\ pc = "jobs_loop"
    /\ i <= Len(job_files)
    /\ ~Truthy(job_files[i].name)
    /\ printed' = Append(Append(printed, Line("Processing job definition", i)),
                         Line("Skipping, missing name", i))
    /\ reqs' = Append(reqs, Request("jobs", "create", i, 0, job_files[i], TRUE,
                                    <<>>))
    /\ i' = i + 1
    /\ UNCHANGED <<df, calls, HOST, TOKEN, entry, pc, run, dashboard_files, dashboards,
                   jobs_dir_exists, job_files, jobs_list, remote_dashboards,
                   remote_jobs, exit_status>>

(* job_name = job_def.get("name"); if not job_name: print(...); continue *)
JobSkip ==
    /\ pc = "jobs_loop"
    /\ i <= Len(job_files)
    /\ ~Truthy(job_files[i].name)
    /\ printed' = Append(Append(printed, Line("Processing job definition", i)),
                         Line("Skipping, missing name", i))
    /\ i' = i + 1
    /\ UNCHANGED <<df, calls, HOST, TOKEN, entry, pc, run, dashboard_files, dashboards,
                   jobs_dir_exists, job_files, jobs_list, remote_dashboards,
                   remote_jobs, reqs, exit_status>>

(* Variant: a failed list request ends the function (return, not         *)
(* continue).                                                              *)
JobListStepAborting(ok) ==
    /\ pc = "jobs_loop"
    /\ i <= Len(job_files)
    /\ Truthy(job_files[i].name)
    /\ reqs' = Append(reqs, Request("jobs", "list", i, 0, None, ok,
                                    IF ok THEN remote_jobs ELSE <<>>))
    /\ IF ok
       THEN /\ jobs_list' = remote_jobs
            /\ printed' = Append(printed, Line("Processing job definition", i))
            /\ pc' = "jobs_apply"
            /\ i' = i
       ELSE /\ jobs_list' = jobs_list
            /\ printed' = Append(Append(printed,
                                        Line("Processing job definition", i)),
                                 Line("Failed to list jobs", i))
            /\ pc' = "returned"
            /\ i' = i + 1
    /\ UNCHANGED <<df, calls, HOST, TOKEN, entry, run, dashboard_files, dashboards,
                   jobs_dir_exists, job_files, remote_dashboards, remote_jobs,
                   exit_status>>

(* requests.get(.../jobs/list) for the file the loop is at, 210-222: on a  *)
(* RequestException the file is given up (continue).                       *)
JobListStep(ok) ==
    /\ pc = "jobs_loop"
    /\ i <= Len(job_files)
    /\ Truthy(job_files[i].name)
    /\ reqs' = Append(reqs, Request("jobs", "list", i, 0, None, ok,
                                    IF ok THEN remote_jobs ELSE <<>>))
    /\ IF ok
       THEN /\ jobs_list' = remote_jobs
            /\ printed' = Append(printed, Line("Processing job definition", i))
            /\ pc' = "jobs_apply"
            /\ i' = i
       ELSE /\ jobs_list' = jobs_list
            /\ printed' = Append(Append(printed,
                                        Line("Processing job definition", i)),
                                 Line("Failed to list jobs", i))
            /\ pc' = "jobs_loop"
            /\ i' = i + 1
    /\ UNCHANGED <<df, calls, HOST, TOKEN, entry, run, dashboard_files, dashboards,
                   jobs_dir_exists, job_files, remote_dashboards, remote_jobs,
                   exit_status>>

JobList == \E ok \in BOOLEAN : JobListStep(ok)

(* if existing_job: ... requests.post(.../jobs/update), 230-250 *)
JobUpdateStep(ok) ==
    /\ pc = "jobs_apply"
    /\ LET job_def == job_files[i]
           existing_job == ExistingJob(jobs_list, job_def.name)
       IN  /\ existing_job # 0
           /\ reqs' = Append(reqs, Request("jobs", "update", i,
                                           jobs_list[existing_job].job_id,
                                           job_def, ok, <<>>))
           /\ remote_jobs' =
                 IF ok THEN RemoteUpdateJob(remote_jobs,
                                            jobs_list[existing_job].job_id, job_def)
                 ELSE remote_jobs
           /\ printed' = Append(Append(printed, Line("Updating existing job", i)),
                                Line(IF ok THEN "Job updated"
                                     ELSE "Failed to update job", i))
    /\ i' = i + 1
    /\ pc' = "jobs_loop"
    /\ UNCHANGED <<df, calls, HOST, TOKEN, entry, run, dashboard_files, dashboards,
                   jobs_dir_exists, job_files, jobs_list, remote_dashboards,
                   exit_status>>

JobUpdate == \E ok \in BOOLEAN : JobUpdateStep(ok)

(* else: ... requests.post(.../jobs/create), 255-267 *)
JobCreateStep(ok) ==
    /\ pc = "jobs_apply"
    /\ LET job_def == job_files[i]
           existing_job == ExistingJob(jobs_list, job_def.name)
       IN  /\ existing_job = 0
           /\ reqs' = Append(reqs, Request("jobs", "create", i, 0, job_def, ok, <<>>))
           /\ remote_jobs' =
                 IF ok THEN RemoteCreateJob(remote_jobs, job_def, FreshJobId)
                 ELSE remote_jobs
           /\ printed' = Append(Append(printed, Line("Creating new job", i)),
                                Line(IF ok THEN "Job created"
                                     ELSE "Failed to create job", i))
    /\ i' = i + 1
    /\ pc' = "jobs_loop"
    /\ UNCHANGED <<df, calls, HOST, TOKEN, entry, run, dashboard_files, dashboards,
                   jobs_dir_exists, job_files, jobs_list, remote_dashboards,
                   exit_status>>

JobCreate == \E ok \in BOOLEAN : JobCreateStep(ok)

(* The for loop is exhausted and deploy_jobs returns. *)
JobsReturn ==
    /\ pc = "jobs_loop"
    /\ i > Len(job_files)
    /\ pc' = "returned"
    /\ UNCHANGED <<df, calls, HOST, TOKEN, entry, run, dashboard_files, dashboards,
                   jobs_dir_exists, job_files, jobs_list, i, remote_dashboards,
                   remote_jobs, reqs, printed, exit_status>>

(* ------------------------- end of the process ------------------------- *)

(* The called function returned: the process ends with status 0. *)
Exit ==
    /\ pc = "returned"
    /\ pc' = "exited"
    /\ exit_status' = "0"
    /\ UNCHANGED <<df, calls, HOST, TOKEN, entry, run, dashboard_files, dashboards,
                   jobs_dir_exists, job_files, jobs_list, i, remote_dashboards,
                   remote_jobs, reqs, printed>>

(* The same script is executed again, over the same files and environment, *)
(* against the workspace as the previous run left it.                      *)
Rerun ==
    /\ pc = "exited"
    /\ run + 1 \in Runs
    /\ run' = run + 1
    /\ pc' = "import"
    /\ exit_status' = None
    /\ dashboards' = <<>>
    /\ jobs_list' = <<>>
    /\ i' = 0
    /\ UNCHANGED <<df, calls, HOST, TOKEN, entry, dashboard_files, jobs_dir_exists,
                   job_files, remote_dashboards, remote_jobs, reqs, printed>>

Next ==
    \/ ImportExit
    \/ ImportOk
    \/ DashboardsNone
    \/ DashboardsList
    \/ DashboardUpdate
    \/ DashboardCreate
    \/ DashboardsReturn
    \/ JobsNoDir
    \/ JobsEnter
    \/ JobSkip
    \/ JobList
    \/ JobUpdate
    \/ JobCreate
    \/ JobsReturn
    \/ Exit
    \/ Rerun

Spec == Init /\ [][Next]_vars

(* ====================================================================== *)
(* etl_pipeline.py                                                        *)
(*                                                                        *)
(* A DataFrame is the sequence of its rows; Spark defines no row order,   *)
(* and frames are compared by the rows they hold (SameRows).  A row is a  *)
(* record of its columns.  A null string cell is Null; the integer cell   *)
(* Antall_ledige_plasser is the set of its value, empty when null, so     *)
(* that a comparison with null is not true, as in SQL.                     *)
(* ====================================================================== *)
Null == "<null>"

(* A call of one of the functions is applied to the frame at hand, and    *)
(* then one more is applied to what is at hand after it.                  *)
CallSlots == {1, 2}

Row(sted, dato, klokkeslett, antall) ==
    [Sted |-> sted, Dato |-> dato, Klokkeslett |-> klokkeslett,
     Antall_ledige_plasser |-> antall]

(* The rows a frame may hold: the row of the tests, the same key with     *)
(* other and with null counts, one null in each key column, and a date    *)
(* that is not dd.MM.yyyy.                                                 *)
RowValues ==
    { Row("A", "01.01.2024", "10:00", {5}),
      Row("A", "01.01.2024", "10:00", {-1}),
      Row("A", "01.01.2024", "10:00", {0}),
      Row("A", "01.01.2024", "10:00", {}),
      Row(Null, "01.01.2024", "10:00", {5}),
      Row("A", Null, "10:00", {5}),
      Row("A", "01.01.2024", Null, {5}),
      Row("A", "2024-01-01", "10:00", {5}) }

(* concat_ws(sep, *cols): null cells are skipped. *)
RECURSIVE ConcatWs(_, _)
ConcatWs(sep, cells) ==
    IF cells = <<>> THEN ""
    ELSE IF Head(cells) = Null THEN ConcatWs(sep, Tail(cells))
    ELSE LET rest == ConcatWs(sep, SelectSeq(Tail(cells), LAMBDA c : c # Null))
         IN  IF rest = "" THEN Head(cells) ELSE Head(cells) \o sep \o rest

(* df.withColumn("unique_id", concat_ws("_", Sted, Dato, Klokkeslett)) *)
WithUniqueId(frame) ==
    [k \in 1..Len(frame) |->
        [Sted |-> frame[k].Sted, Dato |-> frame[k].Dato,
         Klokkeslett |-> frame[k].Klokkeslett,
         Antall_ledige_plasser |-> frame[k].Antall_ledige_plasser,
         unique_id |-> ConcatWs("_", <<frame[k].Sted, frame[k].Dato,
                                       frame[k].Klokkeslett>>)]]

(* .drop("unique_id") *)
DropUniqueId(frame) ==
    [k \in 1..Len(frame) |->
        Row(frame[k].Sted, frame[k].Dato, frame[k].Klokkeslett,
            frame[k].Antall_ledige_plasser)]

(* Variant: the time of day is left out of the subset. *)
DedupKeyWithoutTime(row) == <<row.Sted, row.Dato>>

(* The subset of dropDuplicates(["Sted", "Dato", "Klokkeslett"]); two     *)
(* null cells of a column count as equal.                                  *)
DedupKey(row) == <<row.Sted, row.Dato, row.Klokkeslett>>

(* The rows of the frame at the positions in S, in the frame's order. *)
RECURSIVE RowsAt(_, _, _)
RowsAt(frame, S, k) ==
    IF k > Len(frame) THEN <<>>
    ELSE (IF k \in S THEN <<frame[k]>> ELSE <<>>) \o RowsAt(frame, S, k + 1)

(* Variant: one pass that takes out only the first row that has a         *)
(* duplicate after it.                                                     *)
DropOneDuplicate(frame) ==
    LET dup == { k \in 1..Len(frame) :
                    \E j \in (k + 1)..Len(frame) :
                        DedupKey(frame[j]) = DedupKey(frame[k]) }
    IN  IF dup = {} THEN {frame}
        ELSE { RowsAt(frame, (1..Len(frame))
                               \ {CHOOSE k \in dup : \A j \in dup : k <= j}, 1) }

(* dropDuplicates: of the rows of one key any one is kept; which one is   *)
(* not defined.  The result is the set of frames it may return.           *)
DropDuplicates(frame) ==
    { RowsAt(frame, S, 1) :
        S \in { T \in SUBSET (1..Len(frame)) :
                  \A k \in 1..Len(frame) :
                     Cardinality({ j \in T : DedupKey(frame[j])
                                              = DedupKey(frame[k]) }) = 1 } }

(* sjekk_duplikater: the frames it may return. *)
sjekk_duplikater(frame) ==
    { DropUniqueId(d) : d \in DropDuplicates(WithUniqueId(frame)) }

(* col(col_name).isNull() *)
IsNullCell(row, col_name) ==
    IF col_name = "Antall_ledige_plasser" THEN row[col_name] = {}
    ELSE row[col_name] = Null

RequiredColumns == <<"Sted", "Dato", "Klokkeslett", "Antall_ledige_plasser">>

(* for col_name in [...]: if df.filter(col(col_name).isNull()).count() > 0 *)
RECURSIVE FirstNullColumn(_, _)
FirstNullColumn(frame, c) ==
    IF c > Len(RequiredColumns) THEN None
    ELSE IF Cardinality({ k \in 1..Len(frame) :
                             IsNullCell(frame[k], RequiredColumns[c]) }) > 0
         THEN "Manglende verdier i " \o RequiredColumns[c]
    ELSE FirstNullColumn(frame, c + 1)

(* Variant: the rows are gone through first, and the first null cell of   *)
(* the first row that has one is reported.                                 *)
valider_manglende_by_row(frame) ==
    LET bad == { k \in 1..Len(frame) :
                    \E c \in 1..Len(RequiredColumns) :
                        IsNullCell(frame[k], RequiredColumns[c]) }
    IN  IF bad = {} THEN None
        ELSE LET r == CHOOSE k \in bad : \A j \in bad : k <= j
                 cols == { c \in 1..Len(RequiredColumns) :
                              IsNullCell(frame[r], RequiredColumns[c]) }
             IN  "Manglende verdier i "
                    \o RequiredColumns[CHOOSE c \in cols : \A j \in cols : c <= j]

(* valider_manglende: the message of the ValueError raised, or None. *)
valider_manglende(frame) == FirstNullColumn(frame, 1)

(* Variant: a count of zero free places is refused as well. *)
valider_gyldige_verdier_nonpositive(frame) ==
    LET negative == Cardinality({ k \in 1..Len(frame) :
                        \E v \in frame[k].Antall_ledige_plasser : v <= 0 })
    IN  IF negative > 0 THEN "Negative verdier i Antall_ledige_plasser" ELSE None

(* valider_gyldige_verdier: the message of the ValueError raised, or None. *)
(* col("Antall_ledige_plasser") < 0 is not true of a null cell.            *)
valider_gyldige_verdier(frame) ==
    LET negative == Cardinality({ k \in 1..Len(frame) :
                        \E v \in frame[k].Antall_ledige_plasser : v < 0 })
    IN  IF negative > 0 THEN "Negative verdier i Antall_ledige_plasser" ELSE None

(* spark.sql.ansi.enabled of the session the frame belongs to.  Neither   *)
(* etl_pipeline.py nor the session of the tests sets it, and its default  *)
(* differs between Spark releases.                                         *)
SparkAnsiEnabled == BOOLEAN

(* The cell of a column expression whose evaluation raises               *)
(* CANNOT_PARSE_TIMESTAMP when the frame is collected.                    *)
CannotParse == "<CANNOT_PARSE_TIMESTAMP>"

(* to_timestamp(text, "dd.MM.yyyy HH:mm"): the timestamp of a text of     *)
(* that form; for any other text null, and under ANSI mode an error at    *)
(* the time the column is evaluated.                                       *)
to_timestamp(text, ansi) ==
    IF text = "01.01.2024 10:00" THEN "2024-01-01 10:00:00"
    ELSE IF ansi THEN CannotParse
    ELSE Null

(* Variant: only Dato is dropped. *)
konverter_timestamp_keeping_time(frame, ansi) ==
    [k \in 1..Len(frame) |->
        [Sted |-> frame[k].Sted,
         Klokkeslett |-> frame[k].Klokkeslett,
         Antall_ledige_plasser |-> frame[k].Antall_ledige_plasser,
         timestamp |-> to_timestamp(ConcatWs(" ", <<frame[k].Dato,
                                                    frame[k].Klokkeslett>>),
                                    ansi)]]

(* konverter_timestamp: withColumn("timestamp", ...).drop("Dato",         *)
(* "Klokkeslett")                                                          *)
konverter_timestamp(frame, ansi) ==
    [k \in 1..Len(frame) |->
        [Sted |-> frame[k].Sted,
         Antall_ledige_plasser |-> frame[k].Antall_ledige_plasser,
         timestamp |-> to_timestamp(ConcatWs(" ", <<frame[k].Dato,
                                                    frame[k].Klokkeslett>>),
                                    ansi)]]

(* One call: the function, the frame it was given, the frame it returned  *)
(* (<<>> when it returns None or raises) and the message of the error it  *)
(* raised (None when it returned).                                         *)
Call(fn, input, returned, raised) ==
    [fn |-> fn, input |-> input, returned |-> returned, raised |-> raised]

InitEtl ==
    /\ HOST = None
    /\ TOKEN = None
    /\ entry = "etl_pipeline"
    /\ pc = "etl"
    /\ run = 1
    /\ dashboard_files = <<>>
    /\ dashboards = <<>>
    /\ jobs_dir_exists = FALSE
    /\ job_files = <<>>
    /\ jobs_list = <<>>
    /\ i = 0
    /\ remote_dashboards = <<>>
    /\ remote_jobs = <<>>
    /\ reqs = <<>>
    /\ printed = <<>>
    /\ exit_status = None
    /\ df \in SeqsUpTo(RowValues, MaxRows)
    /\ calls = <<>>

(* df = sjekk_duplikater(df) *)
SjekkDuplikater ==
    /\ pc = "etl"
    /\ Len(calls) + 1 \in CallSlots
    /\ \E result \in sjekk_duplikater(df) :
          /\ calls' = Append(calls, Call("sjekk_duplikater", df, result, None))
          /\ df' = result
    /\ UNCHANGED deploy_vars

(* valider_manglende(df) *)
ValiderManglende ==
    /\ pc = "etl"
    /\ Len(calls) + 1 \in CallSlots
    /\ calls' = Append(calls, Call("valider_manglende", df, <<>>,
                                   valider_manglende(df)))
    /\ UNCHANGED <<deploy_vars, df>>

(* valider_gyldige_verdier(df) *)
ValiderGyldigeVerdier ==
    /\ pc = "etl"
    /\ Len(calls) + 1 \in CallSlots
    /\ calls' = Append(calls, Call("valider_gyldige_verdier", df, <<>>,
                                   valider_gyldige_verdier(df)))
    /\ UNCHANGED <<deploy_vars, df>>

(* konverter_timestamp(df); the frame at hand stays the one with Dato and *)
(* Klokkeslett.  The call builds the column expressions and evaluates     *)
(* none of them, so it returns under either setting.                      *)
KonverterTimestamp ==
    /\ pc = "etl"
    /\ Len(calls) + 1 \in CallSlots
    /\ \E ansi \in SparkAnsiEnabled :
          calls' = Append(calls, Call("konverter_timestamp", df,
                                      konverter_timestamp(df, ansi), None))
    /\ UNCHANGED <<deploy_vars, df>>

NextEtl ==
    \/ SjekkDuplikater
    \/ ValiderManglende
    \/ ValiderGyldigeVerdier
    \/ KonverterTimestamp

EtlSpec == InitEtl /\ [][NextEtl]_vars

(* ====================================================================== *)
(* The claims.                                                            *)
(* ====================================================================== *)

(* Requests of the current run, by API, operation and local definition. *)
Sent(api, ops, f) ==
    { k \in 1..Len(reqs) : /\ reqs[k].run = run
                           /\ reqs[k].api = api
                           /\ reqs[k].op \in ops
                           /\ reqs[k].file = f }

(* deploy_dashboards of the current run is past dashboard file f. *)
DashProcessed(f) ==
    /\ entry = "__main__"
    /\ pc \in {"dashboards_loop", "returned", "exited"}
    /\ f \in 1..Len(dashboard_files)
    /\ f < i

(* deploy_jobs of the current run is past job file f. *)
JobProcessed(f) ==
    /\ entry = "deploy_jobs"
    /\ pc \in {"jobs_loop", "jobs_apply", "returned", "exited"}
    /\ f \in 1..Len(job_files)
    /\ f < i

(* The successful list requests made for job file f in the current run. *)
JobListings(f) == { q \in Sent("jobs", {"list"}, f) : reqs[q].ok }

DashNameAt(list, k) == list[k].display_name
JobNameAt(list, k) == list[k].settings.name

(* Entry k is the first entry of the list that carries the name n. *)
FirstDashNamed(list, n, k) ==
    /\ DashNameAt(list, k) = n
    /\ \A j \in 1..(k - 1) : DashNameAt(list, j) # n

FirstJobNamed(list, n, k) ==
    /\ JobNameAt(list, k) = n
    /\ \A j \in 1..(k - 1) : JobNameAt(list, j) # n

(* ---------------------------------------------------------------------- *)
(* C1: in deploy_dashboards and in deploy_jobs, a local definition whose  *)
(* canonical name is the name of no listed remote artifact gets exactly   *)
(* one create request and no update request.                              *)
C1_UnmatchedIsCreatedOnce ==
    /\ \A f \in 1..Len(dashboard_files) :
          ( /\ DashProcessed(f)
            /\ \A k \in 1..Len(dashboards) :
                  DashNameAt(dashboards, k) # CleanName(dashboard_files[f].file) )
          => /\ Cardinality(Sent("lakeview", {"create"}, f)) = 1
             /\ Sent("lakeview", {"update"}, f) = {}
    /\ \A f \in 1..Len(job_files) : \A q \in JobListings(f) :
          ( /\ JobProcessed(f)
            /\ \A k \in 1..Len(reqs[q].resp) :
                  JobNameAt(reqs[q].resp, k) # job_files[f].name )
          => /\ Cardinality(Sent("jobs", {"create"}, f)) = 1
             /\ Sent("jobs", {"update"}, f) = {}

(* A dashboard file was processed against a non-empty snapshot that does  *)
(* not hold its name, and its create request was sent.                    *)
C1_Witness ==
    \E f \in 1..Len(dashboard_files) :
        /\ DashProcessed(f)
        /\ dashboards # <<>>
        /\ \A k \in 1..Len(dashboards) :
              DashNameAt(dashboards, k) # CleanName(dashboard_files[f].file)
        /\ Sent("lakeview", {"create"}, f) # {}

(* ---------------------------------------------------------------------- *)
(* C2, as amended: a local definition for which the FIRST listed entry of *)
(* its name carries a non-empty identifier gets exactly one update        *)
(* request, addressed to that identifier, and no create request.          *)
C2_FirstMatchIsUpdatedOnce ==
    /\ \A f \in 1..Len(dashboard_files) : \A k \in 1..Len(dashboards) :
          ( /\ DashProcessed(f)
            /\ FirstDashNamed(dashboards, CleanName(dashboard_files[f].file), k)
            /\ dashboards[k].dashboard_id # 0 )
          => /\ Cardinality(Sent("lakeview", {"update"}, f)) = 1
             /\ \A u \in Sent("lakeview", {"update"}, f) :
                   reqs[u].id = dashboards[k].dashboard_id
             /\ Sent("lakeview", {"create"}, f) = {}
    /\ \A f \in 1..Len(job_files) : \A q \in JobListings(f) :
       \A k \in 1..Len(reqs[q].resp) :
          ( /\ JobProcessed(f)
            /\ FirstJobNamed(reqs[q].resp, job_files[f].name, k)
            /\ reqs[q].resp[k].job_id # 0 )
          => /\ Cardinality(Sent("jobs", {"update"}, f)) = 1
             /\ \A u \in Sent("jobs", {"update"}, f) :
                   reqs[u].id = reqs[q].resp[k].job_id
             /\ Sent("jobs", {"create"}, f) = {}

(* A job file was processed whose listing held two jobs of its name, and  *)
(* the update went to the first of them.                                  *)
C2_Witness ==
    \E f \in 1..Len(job_files) : \E q \in JobListings(f) :
    \E k, m \in 1..Len(reqs[q].resp) :
        /\ JobProcessed(f)
        /\ k < m
        /\ FirstJobNamed(reqs[q].resp, job_files[f].name, k)
        /\ JobNameAt(reqs[q].resp, m) = job_files[f].name
        /\ \E u \in Sent("jobs", {"update"}, f) :
              reqs[u].id = reqs[q].resp[k].job_id

(* C2, as claimed: it is enough that SOME listed entry of the name carries *)
(* a non-empty identifier.                                                 *)
C2_AnyMatchWithIdIsUpdated ==
    /\ \A f \in 1..Len(dashboard_files) :
          ( /\ DashProcessed(f)
            /\ \E m \in 1..Len(dashboards) :
                  /\ DashNameAt(dashboards, m) = CleanName(dashboard_files[f].file)
                  /\ dashboards[m].dashboard_id # 0 )
          => \E k \in 1..Len(dashboards) :
                /\ FirstDashNamed(dashboards, CleanName(dashboard_files[f].file), k)
                /\ Cardinality(Sent("lakeview", {"update"}, f)) = 1
                /\ \A u \in Sent("lakeview", {"update"}, f) :
                      reqs[u].id = dashboards[k].dashboard_id
                /\ Sent("lakeview", {"create"}, f) = {}
    /\ \A f \in 1..Len(job_files) : \A q \in JobListings(f) :
          ( /\ JobProcessed(f)
            /\ \E m \in 1..Len(reqs[q].resp) :
                  /\ JobNameAt(reqs[q].resp, m) = job_files[f].name
                  /\ reqs[q].resp[m].job_id # 0 )
          => \E k \in 1..Len(reqs[q].resp) :
                /\ FirstJobNamed(reqs[q].resp, job_files[f].name, k)
                /\ Cardinality(Sent("jobs", {"update"}, f)) = 1
                /\ \A u \in Sent("jobs", {"update"}, f) :
                      reqs[u].id = reqs[q].resp[k].job_id
                /\ Sent("jobs", {"create"}, f) = {}

(* ---------------------------------------------------------------------- *)
(* C3: in deploy_dashboards, when the first snapshot entry of the local   *)
(* name has no dashboard_id, neither a create nor an update request is    *)
(* sent for the definition.                                               *)
C3_MatchWithoutIdIsSkipped ==
    \A f \in 1..Len(dashboard_files) : \A k \in 1..Len(dashboards) :
        ( /\ DashProcessed(f)
          /\ FirstDashNamed(dashboards, CleanName(dashboard_files[f].file), k)
          /\ dashboards[k].dashboard_id = 0 )
        => Sent("lakeview", {"create", "update"}, f) = {}

(* ---------------------------------------------------------------------- *)
(* Requests of the current run to one API, by operation. *)
SentTo(api, ops) ==
    { k \in 1..Len(reqs) : /\ reqs[k].run = run
                           /\ reqs[k].api = api
                           /\ reqs[k].op \in ops }

(* A line of the current run printed for local definition f. *)
Reported(msgs, f) ==
    \E k \in 1..Len(printed) : /\ printed[k].run = run
                               /\ printed[k].file = f
                               /\ printed[k].msg \in msgs

(* deploy_dashboards of the current run has fetched its snapshot. *)
DashboardsListed ==
    /\ entry = "__main__"
    /\ pc \in {"dashboards_loop", "returned", "exited"}
    /\ i >= 1

(* deploy_dashboards of the current run went through its loop and returned. *)
DashboardsFinished ==
    /\ entry = "__main__"
    /\ pc \in {"returned", "exited"}
    /\ i >= 1

(* deploy_jobs of the current run went through its loop and returned. *)
JobsFinished ==
    /\ entry = "deploy_jobs"
    /\ pc \in {"returned", "exited"}
    /\ i >= 1

(* ---------------------------------------------------------------------- *)
(* C4: a run of deploy_dashboards over N >= 1 files sends exactly one     *)
(* list request, before any create or update request, and at most N       *)
(* create/update requests; the snapshot it fetched stays as fetched while  *)
(* the files are processed.                                                *)
C4_OneListThenAtMostNWrites ==
    /\ ( entry = "__main__" /\ pc \in {"import", "deploy_dashboards"} )
       => SentTo("lakeview", {"list", "create", "update"}) = {}
    /\ DashboardsListed
       => /\ Cardinality(SentTo("lakeview", {"list"})) = 1
          /\ \A l \in SentTo("lakeview", {"list"}) :
                /\ \A w \in SentTo("lakeview", {"create", "update"}) : l < w
                /\ dashboards = reqs[l].resp
          /\ Cardinality(SentTo("lakeview", {"create", "update"}))
                <= Len(dashboard_files)

(* Two files were processed, the workspace changed under the run, and the *)
(* snapshot is still the one list response.                                *)
C4_Witness ==
    /\ DashboardsFinished
    /\ Len(dashboard_files) = 2
    /\ Cardinality(SentTo("lakeview", {"create", "update"})) = 2
    /\ dashboards # <<>>
    /\ remote_dashboards # dashboards

(* ---------------------------------------------------------------------- *)
(* C5: a run of deploy_jobs lists the remote jobs once per run, not once  *)
(* per local job definition: exactly one list request, followed by at     *)
(* most N create/update requests.                                          *)
C5_JobsListedOncePerRun ==
    ( /\ JobsFinished
      /\ \E f \in 1..Len(job_files) : job_files[f].name \in Names )
    => /\ Cardinality(SentTo("jobs", {"list"})) = 1
       /\ \A l \in SentTo("jobs", {"list"}) :
             \A w \in SentTo("jobs", {"create", "update"}) : l < w
       /\ Cardinality(SentTo("jobs", {"create", "update"})) <= Len(job_files)

(* ---------------------------------------------------------------------- *)
(* C6: in deploy_dashboards a failed create or update request is reported *)
(* for its definition and does not end the run: when the function has     *)
(* returned, every file has had its own create or update request.         *)
C6_DashboardFailureDoesNotAbort ==
    /\ \A f \in 1..Len(dashboard_files) :
       \A w \in Sent("lakeview", {"create", "update"}, f) :
          ( DashProcessed(f) /\ ~reqs[w].ok )
          => Reported({"Failed to create", "Failed to update"}, f)
    /\ DashboardsFinished
       => \A f \in 1..Len(dashboard_files) :
             Cardinality(Sent("lakeview", {"create", "update"}, f)) = 1

(* The request of the first file failed and the second file still had its *)
(* own request.                                                            *)
C6_Witness ==
    /\ DashboardsFinished
    /\ Len(dashboard_files) = 2
    /\ \E w \in Sent("lakeview", {"create", "update"}, 1) : ~reqs[w].ok
    /\ Sent("lakeview", {"create", "update"}, 2) # {}

(* ---------------------------------------------------------------------- *)
(* C7: in deploy_jobs a failed list, update or create request is reported *)
(* for the job it was made for, and every remaining job file is still     *)
(* processed: when the function has returned, every file was taken up,    *)
(* every named one was listed for, and every one whose listing succeeded  *)
(* had its create or update request.                                      *)
C7_JobFailureDoesNotAbort ==
    /\ \A f \in 1..Len(job_files) :
       \A q \in Sent("jobs", {"list", "create", "update"}, f) :
          ( JobProcessed(f) /\ ~reqs[q].ok )
          => Reported({"Failed to list jobs", "Failed to update job",
                       "Failed to create job"}, f)
    /\ JobsFinished
       => \A f \in 1..Len(job_files) :
             /\ Reported({"Processing job definition"}, f)
             /\ job_files[f].name \in Names
                => /\ Cardinality(Sent("jobs", {"list"}, f)) = 1
                   /\ \A q \in Sent("jobs", {"list"}, f) :
                         reqs[q].ok
                         => Cardinality(Sent("jobs", {"create", "update"}, f)) = 1

(* The list request made for the first job failed, and the second job was *)
(* still listed for and created or updated.                                *)
C7_Witness ==
    /\ JobsFinished
    /\ Len(job_files) = 2
    /\ \E q \in Sent("jobs", {"list"}, 1) : ~reqs[q].ok
    /\ Sent("jobs", {"create", "update"}, 2) # {}

(* ---------------------------------------------------------------------- *)
(* C8: no step of a run sends a delete request or takes an artifact out   *)
(* of the workspace; an artifact whose name is no local canonical name is *)
(* left as it is; and an update addresses an artifact of the listing that *)
(* carries the canonical name of the definition it is sent for.           *)
LocalDashboardNames ==
    { CleanName(dashboard_files[f].file) : f \in 1..Len(dashboard_files) }

LocalJobNames == { job_files[f].name : f \in 1..Len(job_files) }

C8_Step ==
    /\ \A k \in 1..Len(reqs') : reqs'[k].op \in {"list", "create", "update"}
    /\ Len(remote_dashboards') >= Len(remote_dashboards)
    /\ Len(remote_jobs') >= Len(remote_jobs)
    /\ \A k \in 1..Len(remote_dashboards) :
          /\ remote_dashboards'[k].dashboard_id = remote_dashboards[k].dashboard_id
          /\ remote_dashboards[k].display_name \notin LocalDashboardNames
             => remote_dashboards'[k] = remote_dashboards[k]
    /\ \A k \in 1..Len(remote_jobs) :
          /\ remote_jobs'[k].job_id = remote_jobs[k].job_id
          /\ remote_jobs[k].settings.name \notin LocalJobNames
             => remote_jobs'[k] = remote_jobs[k]
    /\ ( Len(reqs') > Len(reqs) /\ reqs'[Len(reqs')].op = "update" )
       => LET u == reqs'[Len(reqs')]
          IN  IF u.api = "lakeview"
              THEN \E k \in 1..Len(dashboards') :
                      /\ dashboards'[k].dashboard_id = u.id
                      /\ dashboards'[k].display_name
                            = CleanName(dashboard_files[u.file].file)
              ELSE \E k \in 1..Len(jobs_list') :
                      /\ jobs_list'[k].job_id = u.id
                      /\ jobs_list'[k].settings.name = job_files[u.file].name

C8_NeverDeletes == [][C8_Step]_vars

(* The second run has ended, a dashboard was updated in it, and the       *)
(* workspace holds a dashboard with an identifier that no local file      *)
(* names.                                                                  *)
C8_Witness ==
    /\ DashboardsFinished
    /\ run = 2
    /\ \E w \in SentTo("lakeview", {"update"}) : reqs[w].ok
    /\ \E k \in 1..Len(remote_dashboards) :
          /\ remote_dashboards[k].display_name \notin LocalDashboardNames
          /\ remote_dashboards[k].dashboard_id # 0

(* ---------------------------------------------------------------------- *)
(* C9: after a run of deploy_dashboards in which every call succeeded, a  *)
(* second run over the same files (whose calls succeed as well) sends no  *)
(* create request and exactly one update request per local definition.    *)
C9_SecondRunOnlyUpdates ==
    ( /\ DashboardsFinished
      /\ run = 2
      /\ \A k \in 1..Len(reqs) : reqs[k].ok )
    => \A f \in 1..Len(dashboard_files) :
          /\ Sent("lakeview", {"create"}, f) = {}
          /\ Cardinality(Sent("lakeview", {"update"}, f)) = 1

(* ---------------------------------------------------------------------- *)
(* C10: with DATABRICKS_HOST or DATABRICKS_TOKEN unset or empty the run   *)
(* ends with status 1 at the import, and no request is ever sent.          *)
C10_NoCredentialsNoRequests ==
    ( HOST \in {None, ""} \/ TOKEN \in {None, ""} )
    => /\ reqs = <<>>
       /\ pc \in {"import", "exited"}
       /\ pc = "exited" => exit_status = "1"

(* The token is empty, there are files to deploy, and the script was run  *)
(* twice: both runs have ended with status 1.                              *)
C10_Witness ==
    /\ HOST = "set"
    /\ TOKEN = ""
    /\ run = 2
    /\ pc = "exited"
    /\ exit_status = "1"
    /\ dashboard_files # <<>>

(* ---------------------------------------------------------------------- *)
(* C11: in deploy_jobs a job definition whose name is missing or empty is *)
(* skipped with a warning: no list, create or update request is sent for  *)
(* it, and the job files after it are still taken up.                      *)
C11_NamelessJobIsSkipped ==
    /\ \A f \in 1..Len(job_files) :
          ( JobProcessed(f) /\ job_files[f].name \in {None, ""} )
          => /\ Sent("jobs", {"list", "create", "update"}, f) = {}
             /\ Reported({"Skipping, missing name"}, f)
    /\ JobsFinished
       => \A f, g \in 1..Len(job_files) :
             ( f < g /\ job_files[f].name \in {None, ""} )
             => /\ Reported({"Processing job definition"}, g)
                /\ job_files[g].name \in Names
                   => Sent("jobs", {"list"}, g) # {}

(* The first job file has no name, the second has one and was created or  *)
(* updated.                                                                *)
C11_Witness ==
    /\ JobsFinished
    /\ Len(job_files) = 2
    /\ job_files[1].name \in {None, ""}
    /\ Sent("jobs", {"list", "create", "update"}, 1) = {}
    /\ Sent("jobs", {"create", "update"}, 2) # {}

(* ---------------------------------------------------------------------- *)
(* Helpers for the claims about etl_pipeline.py.                          *)
CallsOf(fn) == { k \in 1..Len(calls) : calls[k].fn = fn }

(* How many rows of the frame are the row r. *)
Occurrences(frame, r) == Cardinality({ k \in 1..Len(frame) : frame[k] = r })

RowsOf(frame) == { frame[k] : k \in 1..Len(frame) }

(* The two frames hold the same rows, each as often. *)
SameRows(a, b) ==
    \A r \in RowsOf(a) \cup RowsOf(b) : Occurrences(a, r) = Occurrences(b, r)

(* Two rows have the same (Sted, Dato, Klokkeslett). *)
SameKey(a, b) ==
    /\ a.Sted = b.Sted
    /\ a.Dato = b.Dato
    /\ a.Klokkeslett = b.Klokkeslett

(* The frame at hand after call k: what the next call is given, or df. *)
FrameAfter(k) == IF k < Len(calls) THEN calls[k + 1].input ELSE df

(* Some row of the frame has a null cell in the column. *)
SomeNull(frame, col_name) ==
    \E k \in 1..Len(frame) : IsNullCell(frame[k], col_name)

(* Dato and Klokkeslett of the row form a dd.MM.yyyy HH:mm text. *)
WellFormed(row) == row.Dato = "01.01.2024" /\ row.Klokkeslett = "10:00"

(* ---------------------------------------------------------------------- *)
(* C12: sjekk_duplikater returns rows of its input, each at most as often *)
(* as the input holds it, with exactly one row for every (Sted, Dato,     *)
(* Klokkeslett) key of the input: no two returned rows share a key, every *)
(* key of the input is the key of a returned row, and the result is at    *)
(* most as long as the input.                                             *)
C12_OneRowPerKey ==
    \A k \in CallsOf("sjekk_duplikater") :
        LET in  == calls[k].input
            out == calls[k].returned
        IN  /\ calls[k].raised = None
            /\ \A r \in RowsOf(out) : Occurrences(out, r) <= Occurrences(in, r)
            /\ \A a, b \in 1..Len(out) : SameKey(out[a], out[b]) => a = b
            /\ \A a \in 1..Len(in) :
                  \E b \in 1..Len(out) : SameKey(in[a], out[b])
            /\ Len(out) <= Len(in)

(* Three rows went in, two of them of one key with different counts and   *)
(* the third of a key that differs in the time only, and two came out.    *)
C12_Witness ==
    \E k \in CallsOf("sjekk_duplikater") :
        LET in == calls[k].input
        IN  /\ Len(in) = 3
            /\ Len(calls[k].returned) = 2
            /\ \E a, b, c \in 1..3 :
                  /\ a # b
                  /\ SameKey(in[a], in[b])
                  /\ in[a] # in[b]
                  /\ in[c].Sted = in[a].Sted
                  /\ in[c].Dato = in[a].Dato
                  /\ in[c].Klokkeslett # in[a].Klokkeslett

(* ---------------------------------------------------------------------- *)
(* C13: sjekk_duplikater applied to what sjekk_duplikater returned gives  *)
(* back the same rows, whichever row the first call kept for each key.    *)
C13_Idempotent ==
    \A k \in CallsOf("sjekk_duplikater") :
        (k > 1 /\ calls[k - 1].fn = "sjekk_duplikater")
        => /\ calls[k].input = calls[k - 1].returned
           /\ SameRows(calls[k].returned, calls[k].input)

(* The first call was given three rows of one key, not all the same row,  *)
(* kept one, and the second call was given that one.                      *)
C13_Witness ==
    /\ Len(calls) = 2
    /\ calls[1].fn = "sjekk_duplikater"
    /\ calls[2].fn = "sjekk_duplikater"
    /\ Len(calls[1].input) = 3
    /\ Cardinality(RowsOf(calls[1].input)) > 1
    /\ Len(calls[1].returned) = 1
    /\ Len(calls[2].returned) = 1

(* ---------------------------------------------------------------------- *)
(* C14: valider_manglende raises exactly when some row has a null Sted,   *)
(* Dato, Klokkeslett or Antall_ledige_plasser; the error names the first  *)
(* of the four columns, in this order, that is null in any row; when no   *)
(* cell is null it returns nothing; the frame is left as it was.          *)
C14_RaisesOnFirstNullColumn ==
    \A k \in CallsOf("valider_manglende") :
        LET in == calls[k].input
        IN  /\ calls[k].raised # None
               <=> \E c \in 1..Len(RequiredColumns) :
                      SomeNull(in, RequiredColumns[c])
            /\ \A c \in 1..Len(RequiredColumns) :
                  ( /\ SomeNull(in, RequiredColumns[c])
                    /\ \A b \in 1..(c - 1) : ~SomeNull(in, RequiredColumns[b]) )
                  => calls[k].raised
                        = "Manglende verdier i " \o RequiredColumns[c]
            /\ calls[k].returned = <<>>
            /\ FrameAfter(k) = in

(* The first row with a null cell has it in Klokkeslett, a later row has  *)
(* a null Dato, and the error names Dato.                                 *)
C14_Witness ==
    \E k \in CallsOf("valider_manglende") :
        LET in == calls[k].input
        IN  /\ Len(in) >= 2
            /\ in[1].Klokkeslett = Null
            /\ in[1].Dato # Null
            /\ in[2].Dato = Null
            /\ calls[k].raised = "Manglende verdier i Dato"

(* ---------------------------------------------------------------------- *)
(* C15: valider_gyldige_verdier raises exactly when some row has          *)
(* Antall_ledige_plasser < 0; otherwise it returns nothing; the frame is  *)
(* left as it was.                                                        *)
C15_RaisesOnNegative ==
    \A k \in CallsOf("valider_gyldige_verdier") :
        LET in == calls[k].input
        IN  /\ calls[k].raised # None
               <=> \E r \in 1..Len(in) :
                      \E v \in in[r].Antall_ledige_plasser : v < 0
            /\ calls[k].raised # None
               => calls[k].raised = "Negative verdier i Antall_ledige_plasser"
            /\ calls[k].returned = <<>>
            /\ FrameAfter(k) = in

(* A frame with a count of zero, a null count and a count of -1 was       *)
(* refused.                                                                *)
C15_Witness ==
    \E k \in CallsOf("valider_gyldige_verdier") :
        LET in == calls[k].input
        IN  /\ calls[k].raised = "Negative verdier i Antall_ledige_plasser"
            /\ \E a, b, c \in 1..Len(in) :
                  /\ in[a].Antall_ledige_plasser = {0}
                  /\ in[b].Antall_ledige_plasser = {}
                  /\ in[c].Antall_ledige_plasser = {-1}

C17_BodyIsLocalDefinitionWithNameAndPath ==
    \A w \in SentTo("lakeview", {"create", "update"}) :
        LET local == dashboard_files[reqs[w].file]
        IN  /\ reqs[w].body.display_name = CleanName(local.file)
            /\ reqs[w].body.parent_path = "/Shared"
            /\ reqs[w].body.pages = local.data.pages
            /\ DOMAIN reqs[w].body = DOMAIN local.data

(* An update and a create were sent for files that carry a display_name   *)
(* and a parent_path of their own, one of them different from the         *)
(* canonical one.                                                          *)
C17_Witness ==
    /\ \E w \in SentTo("lakeview", {"update"}) :
          dashboard_files[reqs[w].file].data.display_name
             \notin {None, reqs[w].body.display_name}
    /\ \E w \in SentTo("lakeview", {"create"}) :
          dashboard_files[reqs[w].file].data.parent_path # None

(* ---------------------------------------------------------------------- *)
(* C18: when the list request of deploy_dashboards fails the run goes on  *)
(* with an empty snapshot: it sends no update request and one create      *)
(* request for every local file, also for names the workspace holds.      *)
C18_FailedListCreatesEverything ==
    \A l \in SentTo("lakeview", {"list"}) :
        ~reqs[l].ok
        => /\ DashboardsListed => dashboards = <<>>
           /\ SentTo("lakeview", {"update"}) = {}
           /\ DashboardsFinished
              => \A f \in 1..Len(dashboard_files) :
                    Cardinality(Sent("lakeview", {"create"}, f)) = 1

(* The list request failed, and a file whose name the workspace holds     *)
(* under an identifier had its create request sent.                        *)
C18_Witness ==
    /\ DashboardsFinished
    /\ run = 1
    /\ \E l \in SentTo("lakeview", {"list"}) : ~reqs[l].ok
    /\ \E f \in 1..Len(dashboard_files) :
          /\ Sent("lakeview", {"create"}, f) # {}
          /\ \E k \in 1..Len(remote_dashboards) :
                /\ remote_dashboards[k].display_name
                      = CleanName(dashboard_files[f].file)
                /\ remote_dashboards[k].dashboard_id # 0
                /\ remote_dashboards[k].body.pages = "p0"

(* ---------------------------------------------------------------------- *)
(* C19: executing the script as the main program with credentials present *)
(* runs deploy_dashboards and then deploy_jobs, so that a local job       *)
(* definition is listed for and created or updated by the run.            *)
C19_MainDeploysJobs ==
    ( /\ entry = "__main__"
      /\ pc = "exited"
      /\ exit_status = "0"
      /\ \E f \in 1..Len(job_files) : job_files[f].name \in Names )
    => SentTo("jobs", {"list", "create", "update"}) # {}

=============================================================================
